---- MODULE Spec2Model ----
(***************************************************************************)
(* Fraud-check admission and correlation pipeline of the WatchOut backend: *)
(*   - CheckFraudResultDict  (app/services/check_fraud_result_dict.py)     *)
(*   - CheckFraudQueue       (app/services/check_fraud_queue.py)           *)
(*   - process_queue worker  (app/services/check_fraud.py and              *)
(*                            app/services/check_fraud_backup.py)          *)
(*   - websocket_endpoint    (app/api/endpoints/check_fraud_ws.py)         *)
(*                                                                         *)
(* Scheduling is asyncio's: a task runs without interruption from one      *)
(* suspension point to the next.  An uncontended `async with _lock` and a  *)
(* put on an unbounded asyncio.Queue do not suspend, so every locked       *)
(* section of the table runs atomically and the lock is free between any   *)
(* two actions.  The suspension points are receive_text, send_text,        *)
(* asyncio.wait_for, asyncio.sleep and the HTTP call to the judge.         *)
(*                                                                         *)
(* The specifications share the state:                                     *)
(*   Spec       the program as wired: connection handlers and the worker.  *)
(*   TableSpec  the CheckFraudResultDict object driven through its three   *)
(*              public coroutines by arbitrary event-loop tasks.           *)
(*   LockSpec   the same object with its locked blocks entered and left in *)
(*              separate steps.                                            *)
(*   ServeSpec  the handlers' check_fraud exchange and the table against a *)
(*              worker that publishes anything at any time; ServeLive adds *)
(*              that asyncio.wait_for ends.                                *)
(*   AdmitSpec  the handlers with the completeness check computed from the *)
(*              last character and the analyser's tokens.                  *)
(***************************************************************************)
EXTENDS Integers, Sequences, FiniteSets, TLC

\* ------------------------------------------------------------- bounds
NumConns == 2
MaxQueue == 2

\* ---------------------------------------------------------- constants
MaxAttempts == 3
NoEvent == 0
NoTask == 0

Conns == 1..NumConns
\* Message texts that pass the completeness check.
Texts == {"a", "b"}
\* The value `cfq.pop()` evaluates to when it is not awaited: a coroutine
\* object, which is never None and never equal to a str.
PopCoroutine == "<coroutine object CheckFraudQueue.pop>"
Keys == Texts \cup {PopCoroutine}
\* Parsed verdicts (LLMResponse instances).
Verdicts == {"v1"}
None == "None"
\* result_LLMResponse = False
Sentinel == "False"
Results == Verdicts \cup {Sentinel}
\* What one judge invocation can do: raise (transport failure), return a
\* text find_res does not match, return a text find_res matches but that
\* json.loads / LLMResponse reject, or return a well-formed verdict.
JudgeReplies == {"raise", "nomatch", "invalid"} \cup Verdicts
\* Identities of asyncio.Event objects.  An identity is reused only once
\* nothing references it any more.
EventIds == 1..(NumConns + Cardinality(Texts))

VARIABLES
    data,              \* CheckFraudResultDict._data: key -> (event, result)
    evSet,             \* the asyncio.Event objects whose flag is set
    queue,             \* CheckFraudQueue._queue
    pc,                \* per connection/task: "receive", "waiting" (in asyncio.wait_for),
                       \* "returned" (wait_for_result has returned), "closed" (the
                       \* handler returned on WebSocketDisconnect), "crashed" (another
                       \* exception left the handler)
    message,           \* per connection: the message wait_for_result waits for
    event_to_wait,     \* per connection: wait_for_result's local
    response_data,     \* per connection: what wait_for_result returned last
    outcome,           \* per connection: how it returned: "woken", "timeout", "noentry"
    sent,              \* the answer to the inbound frame handled last: the frame
                       \* sent, or Nothing(c) when c's handler sent no frame for it
    lastCall,          \* the last create_event_for_message or set_result_for_message
                       \* call: coroutine, key, was the key present
    lock,              \* CheckFraudResultDict._lock: the task holding it, or NoTask
    worker,            \* which process_queue runs: "check_fraud" or "check_fraud_backup"
    wpc,               \* worker position: "pop", "judge", "publish"
    original_text,     \* worker local
    attempt,           \* worker: judge invocations made in this iteration
    status,            \* worker local
    result_LLMResponse \* worker local

tableVars == <<data, evSet>>
connVars == <<pc, message, event_to_wait, response_data, outcome, sent>>
workerVars == <<worker, wpc, original_text, attempt, status, result_LLMResponse>>
vars == <<data, evSet, queue, pc, message, event_to_wait, response_data,
          outcome, sent, lastCall, lock, worker, wpc, original_text, attempt, status,
          result_LLMResponse>>

\* ------------------------------------------------ asyncio.Event objects
Refs(d, etw) == {d[k].ev : k \in DOMAIN d} \cup {etw[c] : c \in Conns}

\* asyncio.Event(): an object nothing refers to yet.
Event(d, etw) ==
    CHOOSE e \in EventIds :
        /\ e \notin Refs(d, etw)
        /\ \A f \in EventIds : f \notin Refs(d, etw) => e <= f

\* ------------------------------------------------ CheckFraudResultDict
\* A create_event_for_message that registers nothing.
create_event_for_message_Never(d, m, e) == d

\* create_event_for_message without its presence check.
create_event_for_message_Overwrite(d, m, e) ==
    [k \in DOMAIN d \cup {m} |-> IF k = m THEN [ev |-> e, res |-> None] ELSE d[k]]

create_event_for_message(d, m, e) ==
    IF m \notin DOMAIN d
    THEN d @@ (m :> [ev |-> e, res |-> None])
    ELSE d

\* set_result_for_message without its presence check: the result is stored
\* under a key nobody registered.
set_result_for_message_Upsert(d, m, r) ==
    IF m \in DOMAIN d
    THEN [d EXCEPT ![m] = [ev |-> d[m].ev, res |-> r]]
    ELSE d @@ (m :> [ev |-> NoEvent, res |-> r])

set_result_for_message(d, m, r) ==
    IF m \in DOMAIN d
    THEN [d EXCEPT ![m] = [ev |-> d[m].ev, res |-> r]]
    ELSE d

\* A set_result_for_message that stores the result and sets no event.
set_result_events_Unset(d, s, m) == s

\* event.set() of set_result_for_message
set_result_events(d, s, m) ==
    IF m \in DOMAIN d THEN s \cup {d[m].ev} ELSE s

\* A lookup that hands out an event for a key that has no entry.
lookup_event_Always(d, m) ==
    IF m \in DOMAIN d THEN d[m].ev ELSE 1

\* first locked section of wait_for_result
lookup_event(d, m) ==
    IF m \in DOMAIN d THEN d[m].ev ELSE NoEvent

\* A wait_for_result that reads the entry and leaves it in the table.
pop_message_Keep(d, m) == d

\* self._data.pop(message, default): the table afterwards
pop_message(d, m) == [k \in DOMAIN d \ {m} |-> d[k]]

\* A wait_for_result that drops the popped result.
popped_result_Lost(d, m) == None

\* A wait_for_result that returns the result of another key's entry.
popped_result_Other(d, m) ==
    IF DOMAIN d \ {m} # {}
    THEN d[CHOOSE k \in DOMAIN d \ {m} : TRUE].res
    ELSE IF m \in DOMAIN d THEN d[m].res ELSE None

\* _, result = self._data.pop(message, (None, None))
popped_result(d, m) ==
    IF m \in DOMAIN d THEN d[m].res ELSE None

\* A frame sent on connection c.
Frame(c, t, b) == [to |-> c, type |-> t, body |-> b]
NoFrame == Frame(0, "none", None)
\* The handler of c went on to its next receive_text without sending.
Nothing(c) == Frame(c, "none", None)
\* An exception left the handler of c; no frame was sent.
Aborted(c) == Frame(c, "none", "exception")

\* The record of a call of coroutine op on the table d with key m.
Call(op, m, d) == [op |-> op, key |-> m, present |-> m \in DOMAIN d]
NoCall == [op |-> "none", key |-> None, present |-> FALSE]

\* ------------------------------------------------------------ initial
Init ==
    /\ data = << >>
    /\ evSet = {}
    /\ queue = << >>
    /\ pc = [c \in Conns |-> "receive"]
    /\ message = [c \in Conns |-> None]
    /\ event_to_wait = [c \in Conns |-> NoEvent]
    /\ response_data = [c \in Conns |-> None]
    /\ outcome = [c \in Conns |-> "none"]
    /\ sent = NoFrame
    /\ lastCall = NoCall
    /\ lock = NoTask
    /\ worker \in {"check_fraud", "check_fraud_backup"}
    /\ wpc = "pop"
    /\ original_text = None
    /\ attempt = 0
    /\ status = "failed"
    /\ result_LLMResponse = None

\* ------------------------------------- wait_for_result, after suspension
\* The awaited event is set: the waiter resumes, pops whatever is under its
\* key and returns the popped result.
Wake(c) ==
    /\ pc[c] = "waiting"
    /\ event_to_wait[c] \in evSet
    /\ response_data' = [response_data EXCEPT ![c] = popped_result(data, message[c])]
    /\ data' = pop_message(data, message[c])
    /\ event_to_wait' = [event_to_wait EXCEPT ![c] = NoEvent]
    /\ evSet' = evSet \cap Refs(data', event_to_wait')
    /\ message' = [message EXCEPT ![c] = None]
    /\ outcome' = [outcome EXCEPT ![c] = "woken"]
    /\ pc' = [pc EXCEPT ![c] = "returned"]
    /\ UNCHANGED <<queue, sent, lastCall>>
    /\ UNCHANGED workerVars
    /\ UNCHANGED lock

\* asyncio.TimeoutError: the event was not set within the timeout.
Timeout(c) ==
    /\ pc[c] = "waiting"
    /\ event_to_wait[c] \notin evSet
    /\ data' = pop_message(data, message[c])
    /\ event_to_wait' = [event_to_wait EXCEPT ![c] = NoEvent]
    /\ evSet' = evSet \cap Refs(data', event_to_wait')
    /\ response_data' = [response_data EXCEPT ![c] = None]
    /\ message' = [message EXCEPT ![c] = None]
    /\ outcome' = [outcome EXCEPT ![c] = "timeout"]
    /\ pc' = [pc EXCEPT ![c] = "returned"]
    /\ UNCHANGED <<queue, sent, lastCall>>
    /\ UNCHANGED workerVars
    /\ UNCHANGED lock

\* --------------------------------------------------- websocket_endpoint
\* A handler that answers a ping whatever it is doing.
ReceivePing_Anytime(c) ==
    /\ sent' = Frame(c, "pong", None)
    /\ UNCHANGED <<data, evSet, queue, pc, message, event_to_wait, response_data, outcome, lastCall>>
    /\ UNCHANGED workerVars
    /\ UNCHANGED lock

\* A handler that leaves a ping unanswered.
ReceivePing_Silent(c) ==
    /\ pc[c] = "receive"
    /\ sent' = Nothing(c)
    /\ UNCHANGED <<data, evSet, queue, pc, message, event_to_wait, response_data, outcome, lastCall>>
    /\ UNCHANGED workerVars
    /\ UNCHANGED lock

\* {"type": "ping"} -> {"type": "pong"}
ReceivePing(c) ==
    /\ pc[c] = "receive"
    /\ sent' = Frame(c, "pong", None)
    /\ UNCHANGED <<data, evSet, queue, pc, message, event_to_wait, response_data, outcome, lastCall>>
    /\ UNCHANGED workerVars
    /\ UNCHANGED lock

\* A handler that answers a malformed frame and then ends.
ReceiveInvalidJSON_Close(c) ==
    /\ pc[c] = "receive"
    /\ sent' = Frame(c, "error", "Invalid JSON")
    /\ pc' = [pc EXCEPT ![c] = "closed"]
    /\ UNCHANGED <<data, evSet, queue, message, event_to_wait, response_data, outcome, lastCall>>
    /\ UNCHANGED workerVars
    /\ UNCHANGED lock

\* json.loads raises
ReceiveInvalidJSON(c) ==
    /\ pc[c] = "receive"
    /\ sent' = Frame(c, "error", "Invalid JSON")
    /\ UNCHANGED <<data, evSet, queue, pc, message, event_to_wait, response_data, outcome, lastCall>>
    /\ UNCHANGED workerVars
    /\ UNCHANGED lock

\* a type that is neither ping nor check_fraud
ReceiveUnknownType(c) ==
    /\ pc[c] = "receive"
    /\ sent' = Frame(c, "error", "Unknown message type")
    /\ UNCHANGED <<data, evSet, queue, pc, message, event_to_wait, response_data, outcome, lastCall>>
    /\ UNCHANGED workerVars
    /\ UNCHANGED lock

\* A handler that answers an empty message and queues it all the same.
ReceiveEmpty_Push(c) ==
    /\ pc[c] = "receive"
    /\ Len(queue) < MaxQueue
    /\ sent' = Frame(c, "result", "canned")
    /\ queue' = Append(queue, "a")
    /\ UNCHANGED <<data, evSet, pc, message, event_to_wait, response_data, outcome, lastCall>>
    /\ UNCHANGED workerVars
    /\ UNCHANGED lock

\* check_fraud with len(message) <= 0: the canned verdict
ReceiveEmpty(c) ==
    /\ pc[c] = "receive"
    /\ sent' = Frame(c, "result", "canned")
    /\ UNCHANGED <<data, evSet, queue, pc, message, event_to_wait, response_data, outcome, lastCall>>
    /\ UNCHANGED workerVars
    /\ UNCHANGED lock

\* check_fraud with a message the completeness check rejects: its last
\* character is an isolated jamo (`continue`), or the last token kiwi
\* returns, the appended "." set aside, is tagged neither EF nor SF (the
\* `if` falls through).  Nothing is sent, nothing is registered or pushed.
IncompleteKinds == {"jamo_final", "not_sentence_final"}

\* A handler that tells the caller its message is incomplete.
ReceiveIncomplete_Answer(c, kind) ==
    /\ pc[c] = "receive"
    /\ kind \in IncompleteKinds
    /\ sent' = Frame(c, "error", "Incomplete message")
    /\ UNCHANGED <<data, evSet, queue, pc, message, event_to_wait, response_data, outcome, lastCall>>
    /\ UNCHANGED workerVars
    /\ UNCHANGED lock

ReceiveIncomplete(c, kind) ==
    /\ pc[c] = "receive"
    /\ kind \in IncompleteKinds
    /\ sent' = Nothing(c)
    /\ UNCHANGED <<data, evSet, queue, pc, message, event_to_wait, response_data, outcome, lastCall>>
    /\ UNCHANGED workerVars
    /\ UNCHANGED lock

\* A frame that is JSON but not an object (null, a number, a string, a
\* list): a.get raises AttributeError.  A check_fraud object without a
\* message, or whose message has no len(): len(message) raises TypeError.
\* Neither is a WebSocketDisconnect, so the exception leaves the handler.
CrashKinds == {"not_an_object", "no_message"}

ReceiveCrash(c, kind) ==
    /\ pc[c] = "receive"
    /\ kind \in CrashKinds
    /\ pc' = [pc EXCEPT ![c] = "crashed"]
    /\ sent' = Aborted(c)
    /\ UNCHANGED <<data, evSet, queue, message, event_to_wait, response_data, outcome, lastCall>>
    /\ UNCHANGED workerVars
    /\ UNCHANGED lock

\* receive_text raises WebSocketDisconnect: the handler returns.
Disconnect(c) ==
    /\ pc[c] = "receive"
    /\ pc' = [pc EXCEPT ![c] = "closed"]
    /\ UNCHANGED <<data, evSet, queue, message, event_to_wait, response_data, outcome, sent, lastCall>>
    /\ UNCHANGED workerVars
    /\ UNCHANGED lock

\* websocket.accept(): a new connection takes the place of an ended one.
Accept(c) ==
    /\ pc[c] \in {"closed", "crashed"}
    /\ pc' = [pc EXCEPT ![c] = "receive"]
    /\ UNCHANGED <<data, evSet, queue, message, event_to_wait, response_data, outcome, sent, lastCall>>
    /\ UNCHANGED workerVars
    /\ UNCHANGED lock

\* check_fraud with a complete message m: create_event_for_message, push and
\* the first locked section of wait_for_result run without suspending; the
\* handler then suspends in asyncio.wait_for.
ReceiveCheckFraud(c, m) ==
    /\ pc[c] = "receive"
    /\ Len(queue) < MaxQueue
    /\ LET e == Event(data, event_to_wait)
           d1 == create_event_for_message(data, m, e)
           ev == lookup_event(d1, m)
       IN  /\ data' = d1
           /\ queue' = Append(queue, m)
           /\ message' = [message EXCEPT ![c] = IF ev = NoEvent THEN None ELSE m]
           /\ event_to_wait' = [event_to_wait EXCEPT ![c] = ev]
           /\ UNCHANGED <<evSet>>
           /\ response_data' = [response_data EXCEPT ![c] = None]
           /\ lastCall' = Call("create_event_for_message", m, data)
           /\ IF ev = NoEvent
              THEN /\ pc' = [pc EXCEPT ![c] = "returned"]
                   /\ outcome' = [outcome EXCEPT ![c] = "noentry"]
              ELSE /\ pc' = [pc EXCEPT ![c] = "waiting"]
                   /\ outcome' = [outcome EXCEPT ![c] = "none"]
    /\ UNCHANGED sent
    /\ UNCHANGED workerVars
    /\ UNCHANGED lock

\* ------------------------------------------- the completeness check
\* What the check looks at in a non-empty message: the class of its last
\* character, and the tokens kiwi returns for tk_msg.
LastChars == {"consonant_jamo", "vowel_jamo", "pipe", "syllable", "sf_punct", "other"}

\* The two ranges of is_incomplete_kor: a Hangul consonant or vowel jamo.
IsolatedJamo(ch) == ch \in {"consonant_jamo", "vowel_jamo"}

\* is_incomplete_kor = re.compile(r"[ㄱ-ㅎ|ㅏ-ㅣ]"): inside a character
\* class "|" is no alternation but a member, so the class holds the
\* consonant jamo, the vowel jamo and the vertical bar.
is_incomplete_kor(ch) == ch \in {"consonant_jamo", "vowel_jamo", "pipe"}

\* detect_sf = re.compile(r'[\?\!\.]')
detect_sf(ch) == ch = "sf_punct"

\* is_insert_sf: "." was appended to tk_msg
is_insert_sf(last) == ~detect_sf(last)

\* A handler that registers and pushes the text it analysed.
submitted_text_Augmented(m, last) == IF is_insert_sf(last) THEN m \o "." ELSE m

\* The text handed to create_event_for_message, push and wait_for_result:
\* `message`; tk_msg goes to kiwi.tokenize only.
submitted_text(m, last) == m

\* Token tags; "NNG" stands for every tag other than EF and SF.
Tags == {"EF", "SF", "NNG"}

Token(tag, synthetic) == [tag |-> tag, synthetic |-> synthetic]

\* The tags kiwi can give the last token of the message itself: a
\* sentence-final ending ends in a syllable, or in what the analyser makes
\* of a dangling jamo; ".", "?" and "!" are SF; a letter, a digit or a
\* symbol such as "|" is neither.
LastTags(last) ==
    CASE last \in {"syllable", "consonant_jamo", "vowel_jamo"} -> {"EF", "NNG"}
      [] last = "sf_punct" -> {"SF"}
      [] OTHER -> {"NNG"}

\* kiwi.tokenize(tk_msg), for a message whose last character is of class
\* last.  The list is given from the last token of the message itself on,
\* the check reading no token before that one.  An appended "." comes back
\* as an SF token of its own, alone when the message is white space, or
\* inside the last token of the message when that is no EF or SF (as in
\* "3.").
kiwi_tokenize(last) ==
    IF is_insert_sf(last)
    THEN {<<Token(t, FALSE), Token("SF", TRUE)>> : t \in LastTags(last)}
         \cup {<<Token(t, FALSE)>> : t \in LastTags(last) \ {"EF"}}
         \cup (IF last = "other" THEN {<<Token("SF", TRUE)>>} ELSE {})
    ELSE {<<Token(t, FALSE)>> : t \in LastTags(last)}

\* if is_insert_sf and token[-1].tag == "SF": token = token[:-1]
reduced_Keep(last, token) == token

reduced(last, token) ==
    IF Len(token) > 0 /\ is_insert_sf(last) /\ token[Len(token)].tag = "SF"
    THEN SubSeq(token, 1, Len(token) - 1)
    ELSE token

\* The conditions under which the handler reaches create_event_for_message.
complete(last, token) ==
    /\ ~is_incomplete_kor(last)
    /\ Len(token) > 0
    /\ Len(reduced(last, token)) > 0
    /\ reduced(last, token)[Len(reduced(last, token))].tag \in {"EF", "SF"}

\* check_fraud with a non-empty message m.
ReceiveNonEmpty(c, m, last, token) ==
    IF is_incomplete_kor(last)
    THEN ReceiveIncomplete(c, "jamo_final")
    ELSE IF complete(last, token)
         THEN ReceiveCheckFraud(c, submitted_text(m, last))
         ELSE ReceiveIncomplete(c, "not_sentence_final")

\* The frame sent after wait_for_result returned.
ReplyFrame(c, r) ==
    IF r # None
    THEN Frame(c, "result", r)
    ELSE Frame(c, "error", "No response from LLM")

\* res = ChatResponse(result=response_data), for response_data that is not
\* None.  A parsed verdict is accepted.  For the value False the model
\* class either rejects it (pydantic ValidationError, which leaves the
\* handler) or accepts it; an accepted instance is truthy, so `if res`
\* holds and the instance is dumped and sent.
ChatResponseOutcomes(r) ==
    IF r = Sentinel THEN {"raises", "accepted"} ELSE {"accepted"}

Reply(c) ==
    /\ pc[c] = "returned"
    /\ \E o \in ChatResponseOutcomes(response_data[c]) :
          IF o = "raises"
          THEN /\ sent' = Aborted(c)
               /\ pc' = [pc EXCEPT ![c] = "crashed"]
          ELSE /\ sent' = ReplyFrame(c, response_data[c])
               /\ pc' = [pc EXCEPT ![c] = "receive"]
    /\ response_data' = [response_data EXCEPT ![c] = None]
    /\ outcome' = [outcome EXCEPT ![c] = "none"]
    /\ UNCHANGED <<data, evSet, queue, message, event_to_wait, lastCall>>
    /\ UNCHANGED workerVars
    /\ UNCHANGED lock

\* -------------------------------------------------------- process_queue
\* Whether this process_queue ends its iteration with a call of
\* set_result_for_message.  check_fraud.py calls cfrd.insert, which
\* CheckFraudResultDict does not define: AttributeError, caught by the
\* loop's except.
CallsSetResult == worker = "check_fraud_backup"

\* Back at `while True`: the locals of the iteration are dead.
IterationEnd ==
    /\ wpc' = "pop"
    /\ original_text' = None
    /\ attempt' = 0
    /\ status' = "failed"
    /\ result_LLMResponse' = None

\* What the expression cfq.pop() in process_queue evaluates to on queue q:
\* pop is a coroutine function and the call is not awaited, so the value is
\* the coroutine object, whatever the queue holds.
cfq_pop(q) == PopCoroutine

\* original_text = cfq.pop(): the queue is not touched and original_text is
\* the coroutine object.
WorkerPop ==
    /\ wpc = "pop"
    /\ original_text' = cfq_pop(queue)
    /\ status' = "failed"
    /\ attempt' = 0
    /\ result_LLMResponse' = None
    /\ wpc' = "judge"
    /\ UNCHANGED <<data, evSet, queue, worker, lastCall>>
    /\ UNCHANGED connVars
    /\ UNCHANGED lock

\* A worker that gives up at the first reply without a verdict.
WorkerJudge_FirstFailure(reply) ==
    /\ wpc = "judge"
    /\ attempt' = attempt + 1
    /\ status' = IF reply \in Verdicts THEN "success" ELSE "failed"
    /\ result_LLMResponse' = IF reply \in Verdicts THEN reply ELSE Sentinel
    /\ wpc' = "publish"
    /\ UNCHANGED <<data, evSet, queue, worker, lastCall, original_text>>
    /\ UNCHANGED connVars
    /\ UNCHANGED lock

\* One pass of `for _ in range(3)`: request_ollama and find_res.findall,
\* and, when the loop is left, json.loads / LLMResponse.
WorkerJudge(reply) ==
    /\ wpc = "judge"
    /\ CASE reply = "raise" ->
              \* request_ollama raises: the exception leaves the for loop
              \* and is caught by the except of the while loop
              IterationEnd
         [] reply = "nomatch" ->
              /\ attempt' = attempt + 1
              /\ IF attempt + 1 = MaxAttempts
                 THEN /\ result_LLMResponse' = Sentinel
                      /\ wpc' = "publish"
                 ELSE /\ wpc' = "judge"
                      /\ UNCHANGED result_LLMResponse
              /\ UNCHANGED <<status, original_text>>
         [] reply = "invalid" ->
              \* json.loads or LLMResponse(**result_dict) raises
              IterationEnd
         [] OTHER ->
              /\ attempt' = attempt + 1
              /\ status' = "success"
              /\ result_LLMResponse' = reply
              /\ wpc' = "publish"
              /\ UNCHANGED original_text
    /\ UNCHANGED <<data, evSet, queue, worker, lastCall>>
    /\ UNCHANGED connVars
    /\ UNCHANGED lock

\* check_fraud_backup.py: await cfrd.set_result_for_message(original_text, ...)
\* check_fraud.py:        cfrd.insert(original_text, ...)  -> AttributeError
WorkerPublish ==
    /\ wpc = "publish"
    /\ IF CallsSetResult
       THEN /\ data' = set_result_for_message(data, original_text, result_LLMResponse)
            /\ evSet' = set_result_events(data, evSet, original_text)
            /\ lastCall' = Call("set_result_for_message", original_text, data)
       ELSE UNCHANGED <<data, evSet, lastCall>>
    /\ IterationEnd
    /\ UNCHANGED <<queue, worker>>
    /\ UNCHANGED connVars
    /\ UNCHANGED lock

Handler(c) ==
    \/ ReceivePing(c)
    \/ ReceiveInvalidJSON(c)
    \/ ReceiveUnknownType(c)
    \/ ReceiveEmpty(c)
    \/ \E kind \in IncompleteKinds : ReceiveIncomplete(c, kind)
    \/ \E kind \in CrashKinds : ReceiveCrash(c, kind)
    \/ \E m \in Texts : ReceiveCheckFraud(c, m)
    \/ Timeout(c)
    \/ Reply(c)
    \/ Disconnect(c)
    \/ Accept(c)

Worker ==
    \/ WorkerPop
    \/ \E reply \in JudgeReplies : WorkerJudge(reply)
    \/ WorkerPublish

Next == (\E c \in Conns : Handler(c)) \/ Worker

Spec == Init /\ [][Next]_vars

\* ------------------------------------- CheckFraudResultDict on its own
Idle == {"receive", "returned"}

Register(c, m) ==
    /\ pc[c] \in Idle
    /\ data' = create_event_for_message(data, m, Event(data, event_to_wait))
    /\ lastCall' = Call("create_event_for_message", m, data)
    /\ UNCHANGED <<evSet, queue>>
    /\ UNCHANGED connVars
    /\ UNCHANGED workerVars
    /\ UNCHANGED lock

Publish(m, r) ==
    /\ data' = set_result_for_message(data, m, r)
    /\ evSet' = set_result_events(data, evSet, m)
    /\ lastCall' = Call("set_result_for_message", m, data)
    /\ UNCHANGED <<queue>>
    /\ UNCHANGED connVars
    /\ UNCHANGED workerVars
    /\ UNCHANGED lock

\* wait_for_result up to its suspension in asyncio.wait_for
WaitBegin(c, m) ==
    /\ pc[c] \in Idle
    /\ LET ev == lookup_event(data, m)
       IN  /\ message' = [message EXCEPT ![c] = IF ev = NoEvent THEN None ELSE m]
           /\ event_to_wait' = [event_to_wait EXCEPT ![c] = ev]
           /\ response_data' = [response_data EXCEPT ![c] = None]
           /\ IF ev = NoEvent
              THEN /\ pc' = [pc EXCEPT ![c] = "returned"]
                   /\ outcome' = [outcome EXCEPT ![c] = "noentry"]
              ELSE /\ pc' = [pc EXCEPT ![c] = "waiting"]
                   /\ outcome' = [outcome EXCEPT ![c] = "none"]
    /\ UNCHANGED <<data, evSet, queue, sent, lastCall>>
    /\ UNCHANGED workerVars
    /\ UNCHANGED lock

TableNext ==
    \/ \E c \in Conns, m \in Texts : Register(c, m)
    \/ \E m \in Texts, r \in Results : Publish(m, r)
    \/ \E c \in Conns, m \in Texts : WaitBegin(c, m)
    \/ \E c \in Conns : Wake(c)
    \/ \E c \in Conns : Timeout(c)

\* The harness has no worker of its own.
TableInit == Init /\ worker = "check_fraud_backup"

TableSpec == TableInit /\ [][TableNext]_vars

\* ------------------------------------ the locked sections, step by step
\* The table's coroutines with every `async with self._lock` block split in
\* two steps, entering (the lock is acquired) and leaving (the block's body
\* runs and the lock is released), and with tasks free to interleave
\* between the two.  asyncio itself switches tasks only at a suspension
\* point, of which the blocks have none, so this allows more interleavings
\* than the event loop does.
Sections == {"in_create", "in_set", "in_lookup", "in_pop"}

\* An acquire that does not look at the lock.
lock_free_Always(l) == TRUE

\* Lock.acquire() returns only once the lock is not held.
lock_free(l) == l = NoTask

\* async with self._lock of create_event_for_message, set_result_for_message
\* and the first block of wait_for_result
LockEnter(t, section, m) ==
    /\ pc[t] \in Idle
    /\ section \in {"in_create", "in_set", "in_lookup"}
    /\ lock_free(lock)
    /\ lock' = t
    /\ pc' = [pc EXCEPT ![t] = section]
    /\ message' = [message EXCEPT ![t] = m]
    /\ response_data' = [response_data EXCEPT ![t] = None]
    /\ outcome' = [outcome EXCEPT ![t] = "none"]
    /\ UNCHANGED <<data, evSet, queue, event_to_wait, sent, lastCall>>
    /\ UNCHANGED workerVars

\* asyncio.wait_for has ended, by the event or by the timeout: async with
\* self._lock of the block that pops
LockEnterPop(t) ==
    /\ pc[t] = "waiting"
    /\ lock_free(lock)
    /\ lock' = t
    /\ pc' = [pc EXCEPT ![t] = "in_pop"]
    /\ outcome' = [outcome EXCEPT ![t] =
                      IF event_to_wait[t] \in evSet THEN "woken" ELSE "timeout"]
    /\ UNCHANGED <<data, evSet, queue, message, event_to_wait, response_data, sent, lastCall>>
    /\ UNCHANGED workerVars

LockExitCreate(t) ==
    /\ pc[t] = "in_create"
    /\ data' = create_event_for_message(data, message[t], Event(data, event_to_wait))
    /\ lastCall' = Call("create_event_for_message", message[t], data)
    /\ lock' = NoTask
    /\ pc' = [pc EXCEPT ![t] = "returned"]
    /\ message' = [message EXCEPT ![t] = None]
    /\ UNCHANGED <<evSet, queue, event_to_wait, response_data, outcome, sent>>
    /\ UNCHANGED workerVars

LockExitSet(t, r) ==
    /\ pc[t] = "in_set"
    /\ data' = set_result_for_message(data, message[t], r)
    /\ evSet' = set_result_events(data, evSet, message[t])
    /\ lastCall' = Call("set_result_for_message", message[t], data)
    /\ lock' = NoTask
    /\ pc' = [pc EXCEPT ![t] = "returned"]
    /\ message' = [message EXCEPT ![t] = None]
    /\ UNCHANGED <<queue, event_to_wait, response_data, outcome, sent>>
    /\ UNCHANGED workerVars

LockExitLookup(t) ==
    /\ pc[t] = "in_lookup"
    /\ LET ev == lookup_event(data, message[t])
       IN  /\ event_to_wait' = [event_to_wait EXCEPT ![t] = ev]
           /\ message' = [message EXCEPT ![t] = IF ev = NoEvent THEN None ELSE message[t]]
           /\ IF ev = NoEvent
              THEN /\ pc' = [pc EXCEPT ![t] = "returned"]
                   /\ outcome' = [outcome EXCEPT ![t] = "noentry"]
              ELSE /\ pc' = [pc EXCEPT ![t] = "waiting"]
                   /\ UNCHANGED outcome
    /\ lock' = NoTask
    /\ UNCHANGED <<data, evSet, queue, response_data, sent, lastCall>>
    /\ UNCHANGED workerVars

LockExitPop(t) ==
    /\ pc[t] = "in_pop"
    /\ response_data' = [response_data EXCEPT ![t] =
                            IF outcome[t] = "woken"
                            THEN popped_result(data, message[t]) ELSE None]
    /\ data' = pop_message(data, message[t])
    /\ event_to_wait' = [event_to_wait EXCEPT ![t] = NoEvent]
    /\ evSet' = evSet \cap Refs(data', event_to_wait')
    /\ message' = [message EXCEPT ![t] = None]
    /\ lock' = NoTask
    /\ pc' = [pc EXCEPT ![t] = "returned"]
    /\ UNCHANGED <<queue, outcome, sent, lastCall>>
    /\ UNCHANGED workerVars

LockNext ==
    \/ \E t \in Conns, section \in Sections, m \in Texts : LockEnter(t, section, m)
    \/ \E t \in Conns : LockEnterPop(t)
    \/ \E t \in Conns : LockExitCreate(t)
    \/ \E t \in Conns, r \in Results : LockExitSet(t, r)
    \/ \E t \in Conns : LockExitLookup(t)
    \/ \E t \in Conns : LockExitPop(t)

LockSpec == TableInit /\ [][LockNext]_vars

\* ------------------- the check_fraud exchange against any publishing worker
\* The connection handlers, fed complete check_fraud messages, and the
\* table, with set_result_for_message called by a worker of which nothing
\* is assumed: any key, any result, any time.
ServeNext ==
    \/ \E c \in Conns, m \in Texts : ReceiveCheckFraud(c, m)
    \/ \E c \in Conns : Wake(c)
    \/ \E c \in Conns : Timeout(c)
    \/ \E c \in Conns : Reply(c)
    \/ \E c \in Conns : Accept(c)
    \/ \E m \in Texts, r \in Results : Publish(m, r)

ServeSpec == TableInit /\ [][ServeNext]_vars

\* The handlers fed non-empty check_fraud messages of every kind, with the
\* completeness check computed; no worker answers.
AdmitNext ==
    \/ \E c \in Conns, m \in Texts, last \in LastChars :
          \E token \in kiwi_tokenize(last) : ReceiveNonEmpty(c, m, last, token)
    \/ \E c \in Conns : Timeout(c)
    \/ \E c \in Conns : Reply(c)

AdmitSpec == TableInit /\ [][AdmitNext]_vars

\* asyncio.wait_for(event_to_wait.wait(), timeout=timeout) ends: a waiting
\* caller resumes, woken by its event or by the timeout.
ServeLive ==
    /\ TableInit
    /\ [][ServeNext]_vars
    /\ \A c \in Conns : WF_vars(Wake(c) \/ Timeout(c))

\* Only referenced events are tracked.
TypeOK ==
    /\ evSet \subseteq Refs(data, event_to_wait)
    /\ NoEvent \notin Refs(data, [c \in Conns |-> 1])
    /\ \A c \in Conns : (pc[c] \in {"waiting", "in_pop"}) <=> (event_to_wait[c] # NoEvent)
    /\ lock \in Conns \cup {NoTask}


\* =====================================================================
\* Claims about the program as wired (Spec)
\* =====================================================================

\* A caller whose wait_for_result waits on the live entry of its message.
Pending(c) ==
    /\ pc[c] = "waiting"
    /\ message[c] \in DOMAIN data
    /\ data[message[c]].ev = event_to_wait[c]
    /\ event_to_wait[c] \notin evSet

\* The worker's step out of "publish".
PublishStep == wpc = "publish" /\ wpc' = "pop"

\* The worker's step `original_text = cfq.pop()`.
PopStep == wpc = "pop" /\ wpc' = "judge"

\* C1: end-to-end delivery.  While an admitted caller waits, an iteration of
\* the worker in which the judge's first reply holds a well-formed verdict
\* is an iteration on a text taken from the queue, it ends with a publish,
\* and every caller waiting on that text's entry has its signal set and that
\* verdict attached by the publish.
C1_EndToEndDelivery ==
    [][ (PublishStep /\ status = "success" /\ attempt = 1
            /\ \E c \in Conns : Pending(c))
        => /\ original_text \in Texts
           /\ CallsSetResult
           /\ \A c \in Conns :
                (Pending(c) /\ message[c] = original_text)
                => /\ event_to_wait[c] \in evSet'
                   /\ popped_result(data', message[c]) = result_LLMResponse
      ]_vars

\* C2: no submission is dropped and order is kept.  When the worker pops
\* while a text is queued, it takes the oldest queued text and that text
\* leaves the queue.
C2_QueueFIFO ==
    [][ (PopStep /\ queue # << >>)
        => /\ original_text' = Head(queue)
           /\ queue' = Tail(queue)
      ]_vars

\* C3: whenever a judgment attempt succeeded while a text was submitted, the
\* worker is about to call publish with a key that is a caller's text and
\* with the parsed verdict.
C3_PublishUnderPoppedText ==
    (wpc = "publish" /\ status = "success" /\ queue # << >>)
    => /\ CallsSetResult
       /\ original_text \in Texts
       /\ result_LLMResponse \in Verdicts

\* C10: retry bound.  When every judge reply of an iteration failed
\* extraction while a caller waits for its submission, the worker has made
\* exactly 3 invocations and publishes the failure sentinel under a
\* submission's key.
C10_RetryBound ==
    (wpc = "publish" /\ status = "failed" /\ \E c \in Conns : Pending(c))
    => /\ attempt = MaxAttempts
       /\ result_LLMResponse = Sentinel
       /\ CallsSetResult
       /\ original_text \in Texts

\* C11: a transport failure counts as one failed attempt.  When a judge
\* invocation raises while a caller waits for its submission, the worker
\* has used one attempt and, unless that was the third, invokes the judge
\* again for the same submission.
C11_TransportFailureRetried ==
    [][ (WorkerJudge("raise") /\ \E c \in Conns : Pending(c))
        => /\ attempt' = attempt + 1
           /\ (attempt + 1 < MaxAttempts) => (wpc' = "judge")
           /\ original_text' = original_text
      ]_vars

\* C12: terminal judge failure wakes the caller.  When the worker ends an
\* iteration whose attempts all failed while a caller waits, its publish
\* sets the signal of a waiting caller and attaches the failure sentinel
\* to that caller's entry.
C12_TerminalFailureWakes ==
    [][ (PublishStep /\ status = "failed" /\ \E c \in Conns : Pending(c))
        => \E c \in Conns :
              /\ Pending(c)
              /\ event_to_wait[c] \in evSet'
              /\ popped_result(data', message[c]) = Sentinel
      ]_vars

\* An iteration of the worker ends in the except branch of its loop.
ExceptionStep ==
    \/ WorkerJudge("raise")
    \/ WorkerJudge("invalid")
    \/ (WorkerPublish /\ ~CallsSetResult)

\* C13: the worker loop survives exceptions.  After an iteration that
\* raised while a text is queued, the worker stands at its pop statement
\* again and that statement yields the next queued text.
C13_LoopContinuesWithNextItem ==
    [][ (ExceptionStep /\ queue # << >>)
        => /\ wpc' = "pop"
           /\ cfq_pop(queue') = Head(queue')
      ]_vars

\* C26: a reply that matches the extraction pattern but does not parse into
\* a verdict counts as one failed attempt.  When such a reply comes while a
\* caller waits for its submission, the worker has used one attempt; it
\* invokes the judge again unless that was the third, and after the third
\* it goes on to publish the failure sentinel.
C26_InvalidParseRetried ==
    [][ (WorkerJudge("invalid") /\ \E c \in Conns : Pending(c))
        => /\ attempt' = attempt + 1
           /\ IF attempt + 1 < MaxAttempts
              THEN wpc' = "judge"
              ELSE wpc' = "publish" /\ result_LLMResponse' = Sentinel
      ]_vars

\* C27: the attempts of one iteration.  The worker invokes the judge at
\* most 3 times and only while it has no verdict; a reply with a verdict
\* ends the invocations; no invocation touches the table, a signal or a
\* connection; the publish comes once the attempts are over, after a
\* verdict or after the third failure, and ends the iteration.
C27_AttemptsThenOnePublish ==
    [][ /\ attempt <= MaxAttempts
        /\ (wpc = "judge") => (attempt < MaxAttempts /\ status = "failed"
                                /\ result_LLMResponse = None)
        /\ \A reply \in JudgeReplies :
              WorkerJudge(reply)
              => /\ data' = data /\ evSet' = evSet
                 /\ lastCall' = lastCall /\ sent' = sent
                 /\ UNCHANGED connVars
                 /\ (reply \in Verdicts) => (wpc' = "publish")
                 /\ (wpc' = "publish")
                      => (reply \in Verdicts \/ attempt' = MaxAttempts)
        /\ WorkerPublish
              => /\ status = "success" \/ attempt = MaxAttempts
                 /\ (status = "success") <=> (result_LLMResponse \in Verdicts)
                 /\ (status = "failed") <=> (result_LLMResponse = Sentinel)
                 /\ wpc' = "pop"
                 /\ attempt' = 0
      ]_vars

\* While a caller waits, the worker stands before its publish with a
\* verdict from the second reply, the first having held none.
C27_Witness ==
    /\ wpc = "publish"
    /\ status = "success"
    /\ attempt = 2
    /\ result_LLMResponse \in Verdicts
    /\ \E c \in Conns : Pending(c)

\* The check_fraud request of c has not been answered yet.
Busy(c) == pc[c] \in {"waiting", "returned"}

\* C28: one request at a time per connection.  While a check_fraud of a
\* connection is unanswered, the connection keeps waiting for that one
\* message, pushes nothing, and the only frame sent to it is the answer to
\* that request, sent once wait_for_result has returned.
C28_OneAtATime ==
    [][ \A c \in Conns :
          Busy(c)
          => /\ (sent' # sent /\ sent'.to = c)
                  => /\ pc[c] = "returned"
                     /\ sent' \in {ReplyFrame(c, response_data[c]), Aborted(c)}
                     /\ ~Busy(c)'
             /\ (pc[c] = "waiting")
                  => \/ pc'[c] = "returned"
                     \/ /\ pc'[c] = "waiting"
                        /\ message'[c] = message[c]
                        /\ event_to_wait'[c] = event_to_wait[c]
             /\ (pc[c] = "returned") => (pc'[c] \in {"returned", "receive", "crashed"})
             /\ (queue' # queue)
                  => \E d \in Conns \ {c}, m \in Texts : ReceiveCheckFraud(d, m)
      ]_vars

\* The pending check of one connection has been answered, that connection
\* reads frames again, and another connection still waits for its own.
C28_Witness ==
    \E c \in Conns, d \in Conns :
        /\ c # d
        /\ sent = Frame(c, "error", "No response from LLM")
        /\ pc[c] = "receive"
        /\ pc[d] = "waiting"
        /\ Len(queue) >= 2

\* C29: a caller's timeout does not cancel its queued submission.  A
\* timeout with texts queued leaves the queue as it is, and the worker's
\* pop statement on that queue yields the oldest queued text, to be judged.
C29_TimeoutKeepsSubmission ==
    [][ \A c \in Conns :
          (Timeout(c) /\ queue # << >>)
          => /\ queue' = queue
             /\ cfq_pop(queue') = Head(queue')
      ]_vars

\* C37: judge load is bounded by the submissions.  The judge is invoked
\* only for a text taken from the queue: while nothing has been pushed, no
\* invocation has been made.
C37_JudgeOnlyForDequeued ==
    (queue = << >>) => (attempt = 0)

\* C17: the handler stops serving a connection only on a transport-level
\* disconnect: no exception ever leaves the handler of a connection.
C17_OnlyDisconnectStops ==
    \A c \in Conns : pc[c] # "crashed"

\* Some submission is under way: queued, and registered in the table.
InFlight == queue # << >> /\ DOMAIN data # {}

\* C18: a frame that is not JSON, or a JSON object of unknown type, is
\* answered with one error envelope; the queue and the table are unchanged
\* and the handler goes on reading frames.
C18_MalformedAnswered ==
    [][ \A c \in Conns :
          (ReceiveInvalidJSON(c) \/ ReceiveUnknownType(c))
          => /\ sent'.to = c
             /\ sent'.type = "error"
             /\ sent'.body \in {"Invalid JSON", "Unknown message type"}
             /\ data' = data /\ evSet' = evSet /\ queue' = queue
             /\ pc'[c] = "receive"
      ]_vars

\* A malformed frame was answered while a submission was under way.
C18_Witness ==
    /\ sent.type = "error"
    /\ sent.body \in {"Invalid JSON", "Unknown message type"}
    /\ sent.to \in Conns
    /\ pc[sent.to] = "receive"
    /\ InFlight

\* C19: empty-input short circuit.  A check_fraud request with an empty
\* message is answered with the canned verdict in the same step; the
\* table, the queue and the worker are untouched, no table coroutine is
\* called and the handler does not wait.
C19_EmptyShortCircuit ==
    [][ \A c \in Conns :
          ReceiveEmpty(c)
          => /\ sent' = Frame(c, "result", "canned")
             /\ data' = data /\ evSet' = evSet /\ queue' = queue
             /\ lastCall' = lastCall
             /\ event_to_wait' = event_to_wait
             /\ pc'[c] = "receive"
             /\ UNCHANGED workerVars
      ]_vars

\* The canned verdict was sent while a submission of another connection
\* was under way.
C19_Witness ==
    /\ sent.type = "result"
    /\ sent.body = "canned"
    /\ sent.to \in Conns
    /\ pc[sent.to] = "receive"
    /\ InFlight
    /\ \E d \in Conns \ {sent.to} : pc[d] = "waiting"

\* C20: completeness gating.  A check_fraud message that ends in an
\* isolated jamo, or whose last analysed token is no sentence-final ending
\* or punctuation, gets no reply; the queue and the table are unchanged, no
\* table coroutine is called and the handler goes on reading frames.
C20_IncompleteIgnored ==
    [][ \A c \in Conns, kind \in IncompleteKinds :
          ReceiveIncomplete(c, kind)
          => /\ sent' = Nothing(c)
             /\ data' = data /\ evSet' = evSet /\ queue' = queue
             /\ lastCall' = lastCall
             /\ event_to_wait' = event_to_wait
             /\ pc'[c] = "receive"
      ]_vars

\* An incomplete message was passed over in silence while a submission was
\* under way.
C20_Witness ==
    /\ sent.type = "none"
    /\ sent.body = None
    /\ sent.to \in Conns
    /\ pc[sent.to] = "receive"
    /\ InFlight

\* C22: a ping frame is answered with one pong frame; the queue and the
\* table are unchanged, no table coroutine is called and the handler goes
\* on reading frames.
C22_PingPong ==
    [][ \A c \in Conns :
          ReceivePing(c)
          => /\ sent' = Frame(c, "pong", None)
             /\ data' = data /\ evSet' = evSet /\ queue' = queue
             /\ lastCall' = lastCall
             /\ pc'[c] = "receive"
      ]_vars

\* A pong was sent while a submission of another connection was under way.
C22_Witness ==
    /\ sent.type = "pong"
    /\ sent.to \in Conns
    /\ pc[sent.to] = "receive"
    /\ InFlight
    /\ \E d \in Conns \ {sent.to} : pc[d] = "waiting"

\* C23: caller step order.  The handler of an admitted message registers
\* the key, then pushes the text, then awaits the result: the step appends
\* the text to the queue with the table holding an entry under it, an entry
\* already there being kept as it is, and leaves the handler suspended on
\* the signal of that entry.
C23_StepOrder ==
    [][ \A c \in Conns, m \in Texts :
          ReceiveCheckFraud(c, m)
          => /\ queue' = Append(queue, m)
             /\ m \in DOMAIN data'
             /\ DOMAIN data' = DOMAIN data \cup {m}
             /\ \A k \in DOMAIN data : data'[k] = data[k]
             /\ lastCall' = Call("create_event_for_message", m, data)
             /\ pc'[c] = "waiting"
             /\ message'[c] = m
             /\ event_to_wait'[c] = data'[m].ev
      ]_vars

\* The text pushed last was registered by the call before the push, and a
\* caller waits on the signal of its entry; an earlier submission is still
\* queued.
C23_Witness ==
    /\ Len(queue) >= 2
    /\ lastCall.op = "create_event_for_message"
    /\ lastCall.key = queue[Len(queue)]
    /\ lastCall.key \in DOMAIN data
    /\ \E c \in Conns : Pending(c) /\ message[c] = lastCall.key

\* =====================================================================
\* Claims about the completeness check (AdmitSpec)
\* =====================================================================

\* The last token, a token that is the appended mark set aside, is tagged
\* EF or SF.
SentenceFinal(token) ==
    LET t == IF Len(token) > 0 /\ token[Len(token)].synthetic
             THEN SubSeq(token, 1, Len(token) - 1)
             ELSE token
    IN  Len(t) > 0 /\ t[Len(t)].tag \in {"EF", "SF"}

\* The step registers m and pushes it.
Submits(m) ==
    /\ queue' = Append(queue, m)
    /\ m \in DOMAIN data'
    /\ lastCall' = Call("create_event_for_message", m, data)

\* C31: admission decision.  A non-empty message is registered and pushed
\* exactly when its last character is no isolated jamo and the last token
\* of the analysis, the synthetic mark set aside, is tagged EF or SF.
C31_AdmissionDecision ==
    [][ \A c \in Conns, m \in Texts, last \in LastChars :
          \A token \in kiwi_tokenize(last) :
             ReceiveNonEmpty(c, m, last, token)
             => (Submits(m) <=> (~IsolatedJamo(last) /\ SentenceFinal(token)))
      ]_vars

\* One message has been admitted and its caller waits; a later one was
\* passed over in silence.
C31_Witness ==
    /\ queue # << >>
    /\ sent.type = "none"
    /\ sent.to \in Conns
    /\ pc[sent.to] = "receive"
    /\ \E d \in Conns \ {sent.to} : Pending(d) /\ message[d] = queue[Len(queue)]

\* C32: the synthetic mark is used for the analysis only.  The key
\* registered, the text pushed and the text awaited are the message as the
\* caller sent it, with or without a mark appended for the analyser.
C32_OriginalTextSubmitted ==
    [][ \A c \in Conns, m \in Texts, last \in LastChars :
          \A token \in kiwi_tokenize(last) :
             (ReceiveNonEmpty(c, m, last, token) /\ complete(last, token))
             => /\ queue' = Append(queue, m)
                /\ lastCall'.key = m
                /\ DOMAIN data' = DOMAIN data \cup {m}
                /\ message'[c] = m
      ]_vars

\* Two admitted messages are queued and registered under the callers' own
\* texts, and both callers wait.
C32_Witness ==
    /\ Len(queue) >= 2
    /\ DOMAIN data = {queue[i] : i \in DOMAIN queue}
    /\ DOMAIN data \subseteq Texts
    /\ Cardinality(DOMAIN data) >= 2
    /\ \A k \in DOMAIN data : \E c \in Conns : Pending(c) /\ message[c] = k

\* C38: the final-character check is exact.  A non-empty message is turned
\* away by the final-character check only when its last character is a
\* Hangul consonant or vowel jamo.
C38_JamoCheckExact ==
    [][ \A c \in Conns, m \in Texts, last \in LastChars :
          \A token \in kiwi_tokenize(last) :
             (ReceiveNonEmpty(c, m, last, token) /\ is_incomplete_kor(last))
             => IsolatedJamo(last)
      ]_vars

\* =====================================================================
\* Claims about the endpoint against any publishing worker (ServeSpec)
\* =====================================================================

\* C16: judge exhaustion and caller timeout are surfaced alike.  When the
\* handler answers after wait_for_result returned the failure sentinel or
\* timed out, it sends the "No response from LLM" error envelope and goes
\* on serving.
C16_ExhaustionLikeTimeout ==
    [][ \A c \in Conns :
          (Reply(c) /\ (response_data[c] = Sentinel \/ outcome[c] = "timeout"))
          => /\ sent' = Frame(c, "error", "No response from LLM")
             /\ pc'[c] = "receive"
      ]_vars

\* C14: every pending entry is eventually removed.  Whenever a key has an
\* entry in the table, a later state has no entry under that key, whatever
\* the worker publishes and however callers share keys.
C14_EntriesEventuallyRemoved ==
    \A k \in Texts : (k \in DOMAIN data) ~> (k \notin DOMAIN data)

\* Entries were created by admitted submissions and the table is empty
\* again, one caller having been woken with a result and one timed out.
C14_Witness ==
    /\ DOMAIN data = {}
    /\ Len(queue) >= 2
    /\ \E c \in Conns : outcome[c] = "woken" /\ response_data[c] \in Results
    /\ \E c \in Conns : outcome[c] = "timeout"

\* A waiting caller whose signal can no longer be set: it is not set, and
\* the table holds no entry with it under the caller's key.
Orphan(c) ==
    /\ pc[c] = "waiting"
    /\ event_to_wait[c] \notin evSet
    /\ lookup_event(data, message[c]) # event_to_wait[c]

\* The other callers suspended on the signal c is suspended on.
Sharers(c) ==
    {d \in Conns \ {c} : pc[d] = "waiting" /\ event_to_wait[d] = event_to_wait[c]}

\* C25: key collision.  A caller that submits a text which has an entry
\* adopts that entry and waits on its signal; a publish that finds the
\* entry sets the signal of every caller waiting on it; a timeout of one
\* waiter removes the entry, and a caller waiting on the same signal stays
\* without a settable signal until it returns absent.
C25_KeyCollision ==
    [][ /\ \A c \in Conns, m \in Texts :
              (ReceiveCheckFraud(c, m) /\ m \in DOMAIN data)
              => /\ data' = data
                 /\ event_to_wait'[c] = data[m].ev
        /\ \A m \in Texts, r \in Results :
              Publish(m, r)
              => \A c \in Conns : (Pending(c) /\ message[c] = m)
                                    => event_to_wait[c] \in evSet'
        /\ \A c \in Conns :
              Timeout(c)
              => /\ message[c] \notin DOMAIN data'
                 /\ \A d \in Sharers(c) : Orphan(d)'
        /\ \A d \in Conns :
              Orphan(d)
              => \/ Orphan(d)'
                 \/ pc'[d] = "returned" /\ response_data'[d] = None
      ]_vars

\* Two callers wait on the signal of one entry, and a publish has set it.
C25_Witness ==
    \E c \in Conns, d \in Conns :
        /\ c # d
        /\ pc[c] = "waiting" /\ pc[d] = "waiting"
        /\ message[c] = message[d]
        /\ event_to_wait[c] = event_to_wait[d]
        /\ event_to_wait[c] \in evSet
        /\ popped_result(data, message[c]) \in Results

\* The callers suspended in wait_for_result.
InWait == {c \in Conns : pc[c] = "waiting"}

\* C33: no orphan entries.  Every key of the table is the text of a caller
\* that registered it and has not returned from wait_for_result yet, so the
\* table has no more entries than there are callers waiting.
C33_NoOrphanEntries ==
    /\ \A k \in DOMAIN data : \E c \in InWait : message[c] = k
    /\ Cardinality(DOMAIN data) <= Cardinality(InWait)

\* Two callers wait for one text under a single entry, which holds a
\* result.
C33_Witness ==
    /\ Cardinality(DOMAIN data) = 1
    /\ Cardinality(InWait) >= 2
    /\ \A c \in InWait : message[c] \in DOMAIN data
    /\ \E k \in DOMAIN data : data[k].res \in Results

\* C35: no stale result.  A result is delivered to a caller only if it was
\* published after the caller registered: when a caller has registered
\* its text, the entry under that text holds no result and its signal is
\* not set.
C35_NoStaleResult ==
    [][ \A c \in Conns, m \in Texts :
          ReceiveCheckFraud(c, m)
          => /\ popped_result(data', m) = None
             /\ event_to_wait'[c] \notin evSet'
      ]_vars

\* C36: no cross-text delivery.  A result enters an entry only by a publish
\* under the key of that entry, and a woken caller returns what the entry
\* under its own message text holds, or absent when there is none.
C36_NoCrossTextDelivery ==
    [][ /\ \A k \in DOMAIN data' :
              (data'[k].res # None /\ (k \notin DOMAIN data \/ data'[k].res # data[k].res))
              => /\ k \in DOMAIN data
                 /\ lastCall' = Call("set_result_for_message", k, data)
                 /\ \E r \in Results : Publish(k, r) /\ data'[k].res = r
        /\ \A c \in Conns, m \in Texts :
              ReceiveCheckFraud(c, m) => message'[c] = m
        /\ \A c \in Conns :
              Wake(c)
              => response_data'[c] = IF message[c] \in DOMAIN data
                                     THEN data[message[c]].res
                                     ELSE None
      ]_vars

\* A caller has been woken with the verdict published under its text while
\* another caller waits for another text, whose entry holds no result.
C36_Witness ==
    /\ \E c \in Conns : outcome[c] = "woken" /\ response_data[c] \in Verdicts
    /\ lastCall.op = "set_result_for_message"
    /\ lastCall.present
    /\ \E d \in Conns :
          /\ Pending(d)
          /\ message[d] # lastCall.key
          /\ data[message[d]].res = None

\* Every text pushed so far is m.
OnlySubmitted(m) ==
    /\ queue # << >>
    /\ \A i \in DOMAIN queue : queue[i] = m

\* A wait for m has ended by the timeout, and its caller has not answered
\* yet.
TimedOutOn(m) ==
    /\ OnlySubmitted(m)
    /\ \E c \in Conns : pc[c] = "returned" /\ outcome[c] = "timeout"

\* C21: a publish that arrives after the waiting caller has timed out is a
\* no-op.  It changes no entry of the table and sets no signal, also when
\* the same text has been registered again since the timeout.
C21_LatePublishNoOp ==
    [][ \A m \in Texts, r \in Results :
          (Publish(m, r) /\ TimedOutOn(m))
          => (data' = data /\ evSet' = evSet)
      ]_vars

\* =====================================================================
\* Claims about the correlation table (TableSpec)
\* =====================================================================

\* C4: at most one result write and one signal fire per entry.  Every
\* publish that finds an entry finds it without a result and with its
\* signal unset.
C4_AtMostOnce ==
    [][ \A m \in Texts, r \in Results :
          (Publish(m, r) /\ m \in DOMAIN data)
          => (data[m].res = None /\ data[m].ev \notin evSet)
      ]_vars

\* C5: publish on a key that has no entry leaves the table unchanged and
\* fires no signal.
C5_PublishAbsentNoOp ==
    [][ \A m \in Texts, r \in Results :
          (Publish(m, r) /\ m \notin DOMAIN data)
          => (data' = data /\ evSet' = evSet)
      ]_vars

\* A publish has found no entry under a key that a timed-out waiter removed.
C5_Witness ==
    /\ lastCall.op = "set_result_for_message"
    /\ ~lastCall.present
    /\ lastCall.key \notin DOMAIN data
    /\ \E c \in Conns : outcome[c] = "timeout"

\* C6: register is idempotent.  On a key that has an entry it changes
\* nothing; on a key that has none it adds exactly one entry, with a new
\* unset signal and no result; the entries and signals of other keys stay.
C6_RegisterIdempotent ==
    [][ \A c \in Conns, m \in Texts :
          Register(c, m)
          => IF m \in DOMAIN data
             THEN data' = data /\ evSet' = evSet
             ELSE /\ DOMAIN data' = DOMAIN data \cup {m}
                  /\ data'[m].res = None
                  /\ data'[m].ev \notin evSet'
                  /\ data'[m].ev \notin Refs(data, event_to_wait)
                  /\ \A k \in DOMAIN data : data'[k] = data[k]
                  /\ evSet' = evSet
      ]_vars

\* The last call registered a key whose entry already held a result, and
\* the entry still holds it.
C6_Witness ==
    /\ lastCall.op = "create_event_for_message"
    /\ lastCall.present
    /\ lastCall.key \in DOMAIN data
    /\ data[lastCall.key].res \in Results
    /\ data[lastCall.key].ev \in evSet

\* C7 as claimed: a waiter whose signal fired removes the entry it awaited
\* and returns the result publish attached to it.
C7_Original ==
    [][ \A c \in Conns :
          Wake(c)
          => /\ message[c] \in DOMAIN data
             /\ data[message[c]].ev = event_to_wait[c]
             /\ message[c] \notin DOMAIN data'
             /\ response_data'[c] = data[message[c]].res
             /\ response_data'[c] \in Results
      ]_vars

\* C7 as amended: a waiter whose signal fired leaves its key absent from the
\* table and returns the result of the entry it removes, which is the
\* result publish attached when that entry still holds the awaited signal;
\* it returns absent when the key has no entry left.
C7_WakeRemovesAndReturns ==
    [][ \A c \in Conns :
          Wake(c)
          => /\ message[c] \notin DOMAIN data'
             /\ IF message[c] \in DOMAIN data
                THEN /\ response_data'[c] = data[message[c]].res
                     /\ data[message[c]].ev = event_to_wait[c]
                          => response_data'[c] \in Results
                ELSE response_data'[c] = None
      ]_vars

\* A woken waiter has returned a published result, and its key has no entry.
C7_Witness ==
    \E c \in Conns :
        /\ outcome[c] = "woken"
        /\ response_data[c] \in Results
        /\ lastCall.op = "set_result_for_message"
        /\ lastCall.present
        /\ lastCall.key \notin DOMAIN data

\* C8: timeout reclaim.  A wait that times out returns absent and leaves
\* its key out of the table, and a register of that key that follows
\* creates an entry with a new, unset signal and no result.
C8_TimeoutReclaim ==
    [][ \A c \in Conns :
          Timeout(c)
          => /\ response_data'[c] = None
             /\ message[c] \notin DOMAIN data'
             /\ LET k == message[c]
                    d2 == create_event_for_message(
                              data', k, Event(data', event_to_wait'))
                IN  /\ k \in DOMAIN d2
                    /\ d2[k].res = None
                    /\ d2[k].ev \notin evSet'
                    /\ d2[k].ev \notin Refs(data', event_to_wait')
      ]_vars

\* A waiter has timed out and the register that followed created an entry
\* without a result and with an unset signal.
C8_Witness ==
    /\ \E c \in Conns : outcome[c] = "timeout" /\ response_data[c] = None
    /\ lastCall.op = "create_event_for_message"
    /\ ~lastCall.present
    /\ lastCall.key \in DOMAIN data
    /\ data[lastCall.key].res = None
    /\ data[lastCall.key].ev \notin evSet

\* C30: wait_for_result on a key that has no entry returns absent at once:
\* the caller does not suspend, and the table and its signals are as
\* before, with no entry under the key.
C30_AbsentKeyReturnsAbsent ==
    [][ \A c \in Conns, m \in Texts :
          (WaitBegin(c, m) /\ m \notin DOMAIN data)
          => /\ pc'[c] = "returned"
             /\ outcome'[c] = "noentry"
             /\ response_data'[c] = None
             /\ event_to_wait'[c] = NoEvent
             /\ data' = data /\ evSet' = evSet
             /\ m \notin DOMAIN data'
      ]_vars

\* A caller has returned absent for lack of an entry, after a key had been
\* registered and a timed-out waiter had emptied the table.
C30_Witness ==
    \E c \in Conns, d \in Conns :
        /\ c # d
        /\ pc[c] = "returned"
        /\ outcome[c] = "noentry"
        /\ response_data[c] = None
        /\ outcome[d] = "timeout"
        /\ lastCall.op = "create_event_for_message"
        /\ DOMAIN data = {}

\* C34: removal hits the right entry.  When a caller's wait ends, by the
\* timeout or by its signal, and removes an entry, that entry holds the
\* signal the caller was waiting on.
C34_RemovesOwnEntry ==
    [][ \A c \in Conns :
          ((Timeout(c) \/ Wake(c)) /\ message[c] \in DOMAIN data)
          => data[message[c]].ev = event_to_wait[c]
      ]_vars

\* A caller suspended in wait_for_result(m) whose event is not set yet.
Waits(c, m) ==
    /\ pc[c] = "waiting"
    /\ message[c] = m
    /\ event_to_wait[c] \notin evSet

\* C9: two callers on one entry.  Exactly one of the waiters of a key returns
\* the published result: a publish that happens while a caller still waits
\* for the key reaches the entry of that key and fires the signal that
\* caller waits on.
C9_ExactlyOne ==
    [][ \A m \in Texts, r \in Results :
          (Publish(m, r) /\ \E d \in Conns : Waits(d, m))
          => /\ m \in DOMAIN data
             /\ \E d \in Conns : Waits(d, m) /\ event_to_wait[d] \in evSet'
      ]_vars

\* C24: result and signal go together.  For every entry of the table, its
\* signal is set exactly when it holds a result, a verdict or the failure
\* sentinel.
C24_SignalIffResult ==
    \A k \in DOMAIN data :
        (data[k].ev \in evSet) <=> (data[k].res \in Results)

\* One entry holds a result and its signal is set while a caller still
\* waits on it; another entry holds neither.
C24_Witness ==
    \E k \in DOMAIN data, j \in DOMAIN data :
        /\ data[k].res \in Results
        /\ data[k].ev \in evSet
        /\ \E c \in Conns : pc[c] = "waiting" /\ event_to_wait[c] = data[k].ev
        /\ data[j].res = None
        /\ data[j].ev \notin evSet

\* =====================================================================
\* Claims about the locking of the table (LockSpec)
\* =====================================================================

\* The tasks inside a locked block of the table.
InSection == {t \in Conns : pc[t] \in Sections}

\* C15: mutual exclusion on the table.  At most one task is inside a locked
\* block of the table at a time, and a task inside one, which is where
\* every read and write of the map sits, holds the lock.
C15_MutualExclusion ==
    /\ Cardinality(InSection) <= 1
    /\ \A t \in InSection : lock = t

\* A task is inside the block that writes a result while another task has
\* finished waiting and stands before the block that pops.
C15_Witness ==
    \E t \in Conns, u \in Conns :
        /\ t # u
        /\ pc[t] = "in_set"
        /\ lock = t
        /\ pc[u] = "waiting"
        /\ message[u] = message[t]

====
